---- MODULE Spec2Model ----
(***************************************************************************)
(* The telemetry facade of faidon_laboratory_logging (logger.py): the      *)
(* construction of a Logger from a Config, its logging, metric and span    *)
(* operations, and the callers (request-handling threads) that use it.     *)
(*                                                                         *)
(* The OpenTelemetry SDK is not part of the repository.  It is modelled by *)
(* what the facade relies on: a counter and a histogram that aggregate     *)
(* under their own lock (one add / record is one atomic step), spans that  *)
(* record until they are ended, and a per-thread ambient "current span"    *)
(* that only an explicit attach changes.  sys.stdout is a sequence of the  *)
(* chunks written to it: print(x) is write(str(x)) followed by write("\n").*)
(***************************************************************************)
EXTENDS Integers, Sequences, FiniteSets, TLC

\* ------------------------------------------------------------------ bounds
NCallers == 2   \* threads calling the facade concurrently
MaxCalls == 3   \* facade calls made in one behaviour
MaxSpans == 2   \* real spans created in one behaviour
MaxRequests == 2  \* requests the handlers serve in one behaviour

Callers == 1 .. NCallers

\* ------------------------------------------------------------------ values
None == "None"              \* Python None
Unset == "<unset>"          \* an attribute no assignment has created yet
NoSpan == 0                 \* INVALID_SPAN: what get_current_span returns by default
Unserializable == "<object>"  \* a value json.dumps raises TypeError on
Now == "<timestamp>"        \* time.strftime("%Y-%m-%dT%H:%M:%SZ", time.gmtime())

Endpoints == {"/work", "/healthz"}
StatusCodes == {200, 500}
Durations == {"0.1"}
ErrorTexts == {"boom"}
Message == "hello"

\* The alloy_url values of a Config: absent, empty, present.
AlloyUrls == {None, "", "alloy:4318"}

Configs ==
  [service_name : {"user-service"}, version : {"1.0.0"},
   environment : {"dev"}, alloy_url : AlloyUrls]

\* Field mappings passed as **fields.  "message" (and "error" for error())
\* cannot be among the names: Python binds them to the named parameters.
FieldMaps ==
  { [n \in {} |-> ""],
    [n \in {"user_id"} |-> "u1"],
    [n \in {"level", "service"} |-> IF n = "level" THEN "TRACE" ELSE "other"],
    [n \in {"trace_id", "user_id"} |-> IF n = "trace_id" THEN "abc" ELSE "u1"],
    [n \in {"payload"} |-> Unserializable] }

LogOps == {"info", "warn", "debug", "error"}

\* ------------------------------------------------------------------ state
VARIABLES
  config,       \* the Config given to Logger(...)
  fields,       \* the field mapping the callers pass in this behaviour
  logger,       \* the attributes of the Logger instance
  ctor,         \* "new": not constructed; "returned" / "raised": how __init__ ended
  failures,     \* history: the construction steps that raised
  stdout,       \* the chunks written to sys.stdout, in order
  counter,      \* http_requests_total: attributes -> sum
  histogram,    \* http_request_duration_seconds: attributes -> observations
  spans,        \* the real spans created: id -> name, attributes, events, ended
  thread,       \* per caller: the facade call it is in, or the last call or
                \* request it made
  scope,        \* per caller: the with-block around the span start_span returned
  current,      \* per caller: the ambient current span of its context
  requested,    \* history: count_request calls made, per (endpoint, status)
  ncalls        \* facade calls and handler requests made so far

vars ==
  <<config, fields, logger, ctor, failures, stdout, counter, histogram,
    spans, thread, scope, current, requested, ncalls>>

\* ------------------------------------------------------------ construction
Truthy(s) == s \notin {None, ""}

\* print(text): the text, then the line terminator, as two writes.
PrintChunks(by, text) ==
  << [by |-> by, kind |-> "text", text |-> text],
     [by |-> by, kind |-> "end", text |-> "\n"] >>

\* Where _init_tracing can fail: building the exporter, provider or processor,
\* or get_tracer.
TracingFailures == {"ok", "exporter", "get_tracer"}
\* Where _init_metrics can fail: before request_counter is assigned, or at
\* create_histogram, after it.
MetricsFailures == {"ok", "exporter", "create_histogram"}

\* A construction in progress: the instance, what it printed, the steps that
\* raised, and whether an exception is in flight.
NewInstance(cfg) ==
  [lg |-> [service_name |-> cfg.service_name, version |-> cfg.version,
           environment |-> cfg.environment, initialized |-> FALSE,
           tracer |-> Unset, request_counter |-> Unset,
           request_duration |-> Unset],
   out |-> <<>>, failed |-> {}, exc |-> FALSE]

_init_tracing(m, failT) ==
  IF failT = "ok"
  THEN [m EXCEPT !.lg.tracer = "tracer"]
  ELSE [m EXCEPT !.lg.tracer = None,
                 !.failed = @ \cup {"tracing"},
                 !.out = @ \o PrintChunks(0, "Failed to initialize tracing")]

_init_metrics(m, failM) ==
  IF failM = "ok"
  THEN [m EXCEPT !.lg.request_counter = "counter",
                 !.lg.request_duration = "histogram"]
  ELSE LET assigned ==
             IF failM = "create_histogram"
             THEN [m EXCEPT !.lg.request_counter = "counter"] ELSE m
       IN [assigned EXCEPT
             !.lg.request_counter = None, !.lg.request_duration = None,
             !.failed = @ \cup {"metrics"},
             !.out = @ \o PrintChunks(0, "Failed to initialize metrics")]

\* InitCaught without the handler: the exception goes on to the caller.
InitCaughtReraises(m) == m

\* The except clause of _init_opentelemetry.
InitCaught(m) ==
  [m EXCEPT !.exc = FALSE,
            !.out = @ \o PrintChunks(0, "Failed to initialize OpenTelemetry")]

_init_opentelemetry(m, failR, failT, failM) ==
  IF failR THEN InitCaught([m EXCEPT !.exc = TRUE, !.failed = {"resource"}])
  ELSE LET t == _init_tracing(m, failT) IN
       IF t.exc THEN InitCaught(t)
       ELSE LET u == _init_metrics(t, failM) IN
            IF u.exc THEN InitCaught(u)
            ELSE [u EXCEPT !.lg.initialized = TRUE]

__init__(cfg, failR, failT, failM) ==
  IF Truthy(cfg.alloy_url)
  THEN _init_opentelemetry(NewInstance(cfg), failR, failT, failM)
  ELSE NewInstance(cfg)

\* ------------------------------------------------------------------- Init
NoRec == [n \in {} |-> ""]

Idle ==
  [pc |-> "idle", op |-> "none", endpoint |-> "", status |-> 0, err |-> "",
   rec |-> NoRec, recording |-> FALSE, outcome |-> "none",
   user_id |-> "", unexpected |-> FALSE, calls |-> <<>>, response |-> 0]

\* The endpoints and status codes the handlers of the user service count.
UserIds == {"42"}
HandlerEndpoints ==
  {"/healthz", "/readyz", "/work", "/users"}
    \cup {"/users/" \o u : u \in UserIds}
    \cup {"/users/" \o u \o "/profile" : u \in UserIds}
HandlerStatusCodes == {200, 201, 400, 500, 503}

NoScope == [kind |-> "none", span |-> NoSpan, phase |-> "none", exits |-> 0,
            failed |-> FALSE, propagated |-> FALSE]

Init ==
  /\ config \in Configs
  /\ fields \in FieldMaps
  /\ logger = NewInstance(config).lg
  /\ ctor = "new"
  /\ failures = {}
  /\ stdout = <<>>
  /\ counter = <<>>
  /\ histogram = <<>>
  /\ spans = <<>>
  /\ thread = [c \in Callers |-> Idle]
  /\ scope = [c \in Callers |-> NoScope]
  /\ current = [c \in Callers |-> NoSpan]
  /\ requested = [k \in (Endpoints \cup HandlerEndpoints)
                          \X (StatusCodes \cup HandlerStatusCodes) |-> 0]
  /\ ncalls = 0

\* logger = Logger(Config(...)): the whole constructor, with the step (if any)
\* at which the resource, the trace emitter and the metric emitter fail.
Construct ==
  /\ ctor = "new"
  /\ \E failR \in BOOLEAN, failT \in TracingFailures, failM \in MetricsFailures :
       LET m == __init__(config, failR, failT, failM) IN
         /\ logger' = m.lg
         /\ stdout' = stdout \o m.out
         /\ failures' = m.failed
         /\ ctor' = IF m.exc THEN "raised" ELSE "returned"
  /\ UNCHANGED <<config, fields, counter, histogram, spans, thread, scope,
                 current, requested, ncalls>>

\* ---------------------------------------------------------------- logging
\* {**a, **b}: the keys of both, b's value where both have the key.
DictMerge(a, b) ==
  [k \in DOMAIN a \cup DOMAIN b |-> IF k \in DOMAIN b THEN b[k] ELSE a[k]]

\* d[key] = value
SetItem(d, key, value) == DictMerge(d, [k \in {key} |-> value])

\* str(Exception(text))
StrOfError(error) == error.text

HexDigits ==
  <<"0", "1", "2", "3", "4", "5", "6", "7", "8", "9", "a", "b", "c", "d", "e", "f">>

RECURSIVE Hex(_)
Hex(n) == IF n < 16 THEN HexDigits[n + 1]
          ELSE Hex(n \div 16) \o HexDigits[(n % 16) + 1]

RECURSIVE HexLen(_)
HexLen(n) == IF n < 16 THEN 1 ELSE 1 + HexLen(n \div 16)

RECURSIVE Zeros(_)
Zeros(k) == IF k <= 0 THEN "" ELSE "0" \o Zeros(k - 1)

\* format(n, '0<width>x')
FormatHex(n, width) == Zeros(width - HexLen(n)) \o Hex(n)

\* span.is_recording(): a real span that has not ended.
is_recording(s) == s \in DOMAIN spans /\ ~spans[s].ended

\* trace.get_current_span() in caller c's context.
get_current_span(c) == current[c]

\* TraceContext that adds the ids of any current span, recording or not.
TraceContextAnySpan(c) ==
  IF logger.initialized /\ get_current_span(c) # NoSpan
  THEN [k \in {"trace_id", "span_id"} |->
          IF k = "trace_id"
          THEN FormatHex(spans[get_current_span(c)].trace_id, 32)
          ELSE FormatHex(spans[get_current_span(c)].span_id, 16)]
  ELSE NoRec

\* The trace context _log adds: only an initialized instance looks it up.
TraceContext(c) ==
  IF logger.initialized /\ is_recording(get_current_span(c))
  THEN [k \in {"trace_id", "span_id"} |->
          IF k = "trace_id"
          THEN FormatHex(spans[get_current_span(c)].trace_id, 32)
          ELSE FormatHex(spans[get_current_span(c)].span_id, 16)]
  ELSE NoRec

\* log_data as _log assembles it before serializing.
log_data(c, level, message, f) ==
  DictMerge(
    DictMerge(
      [k \in {"timestamp", "level", "message", "service", "version", "environment"} |->
         CASE k = "timestamp" -> Now
           [] k = "level" -> level
           [] k = "message" -> message
           [] k = "service" -> logger.service_name
           [] k = "version" -> logger.version
           [] k = "environment" -> logger.environment],
      f),
    TraceContext(c))

\* json.dumps(d) raises TypeError unless every value is serializable.
Serializable(d) == \A k \in DOMAIN d : d[k] # Unserializable

CanCall(c) == ctor = "returned" /\ thread[c].pc = "idle" /\ ncalls < MaxCalls

\* _log up to json.dumps: the record is built and serialized, or dumps raises
\* and nothing is written.
_log(c, op, level, message, f, err) ==
  /\ CanCall(c)
  /\ LET d == log_data(c, level, message, f) IN
       thread' = [thread EXCEPT ![c] =
         IF Serializable(d)
         THEN [Idle EXCEPT !.pc = "write_text", !.op = op, !.err = err, !.rec = d,
                 !.recording = is_recording(current[c]), !.outcome = "running"]
         ELSE [Idle EXCEPT !.op = op, !.err = err,
                 !.recording = is_recording(current[c]), !.outcome = "raised"]]
  /\ ncalls' = ncalls + 1
  /\ UNCHANGED <<config, fields, logger, ctor, failures, stdout, counter,
                 histogram, spans, scope, current, requested>>

info(c) == _log(c, "info", "INFO", Message, fields, "")
warn(c) == _log(c, "warn", "WARN", Message, fields, "")
debug(c) == _log(c, "debug", "DEBUG", Message, fields, "")

\* error() that logs the error description alone, dropping the fields.
errorDropsFields(c) ==
  \E text \in ErrorTexts :
    _log(c, "error", "ERROR", Message,
         SetItem(NoRec, "error", StrOfError([type |-> "Exception", text |-> text])),
         text)

error(c) ==
  \E text \in ErrorTexts :
    _log(c, "error", "ERROR", Message,
         SetItem(fields, "error", StrOfError([type |-> "Exception", text |-> text])),
         text)

\* print(json.dumps(log_data)), first write: the serialized record.
WriteText(c) ==
  /\ thread[c].pc = "write_text"
  /\ stdout' = Append(stdout, [by |-> c, kind |-> "text", text |-> "record"])
  /\ thread' = [thread EXCEPT ![c].pc = "write_end"]
  /\ UNCHANGED <<config, fields, logger, ctor, failures, counter, histogram,
                 spans, scope, current, requested, ncalls>>

\* print(json.dumps(log_data)), second write: the line terminator; _log returns.
WriteEnd(c) ==
  /\ thread[c].pc = "write_end"
  /\ stdout' = Append(stdout, [by |-> c, kind |-> "end", text |-> "\n"])
  /\ thread' = [thread EXCEPT ![c].pc = "idle", ![c].outcome = "returned"]
  /\ UNCHANGED <<config, fields, logger, ctor, failures, counter, histogram,
                 spans, scope, current, requested, ncalls>>

\* ---------------------------------------------------------------- metrics
DecDigits == <<"0", "1", "2", "3", "4", "5", "6", "7", "8", "9">>

\* str(n) of a non-negative int
RECURSIVE StrOfInt(_)
StrOfInt(n) == IF n < 10 THEN DecDigits[n + 1]
               ELSE StrOfInt(n \div 10) \o DecDigits[(n % 10) + 1]

\* "self.initialized and self.<attr>": the attribute is read only when the
\* flag is true; reading an attribute nothing assigned raises AttributeError.
\* AttrError with the flag not consulted first ("if self.<attr>:").
AttrErrorNoFlag(attr) == logger[attr] = Unset

AttrError(attr) == logger.initialized /\ logger[attr] = Unset
Active(attr) == logger.initialized /\ logger[attr] \notin {Unset, None}

Value(agg, attrs) == IF attrs \in DOMAIN agg THEN agg[attrs] ELSE 0

\* Counter.add(amount, attributes) of the SDK: one aggregation under its lock.
Add(agg, amount, attrs) ==
  [a \in DOMAIN agg \cup {attrs} |->
     IF a = attrs THEN Value(agg, attrs) + amount ELSE agg[a]]

\* Histogram.record(value, attributes) of the SDK.
Record(agg, value, attrs) ==
  [a \in DOMAIN agg \cup {attrs} |->
     IF a = attrs
     THEN (IF attrs \in DOMAIN agg THEN Append(agg[attrs], value) ELSE <<value>>)
     ELSE agg[a]]

\* The attributes count_request passes with the increment.
RequestAttributes(endpoint, status_code) ==
  [endpoint |-> endpoint, status_code |-> StrOfInt(status_code),
   service |-> logger.service_name]

\* count_request that retries the initialization when the instance is not
\* initialized and an endpoint is configured.
count_requestReinitializes(c, endpoint, status_code) ==
  /\ CanCall(c)
  /\ logger' =
       IF ~logger.initialized /\ Truthy(config.alloy_url)
       THEN _init_opentelemetry(NewInstance(config), FALSE, "ok", "ok").lg
       ELSE logger
  /\ thread' = [thread EXCEPT ![c] =
       [Idle EXCEPT !.op = "count_request", !.endpoint = endpoint,
                    !.status = status_code,
                    !.pc = IF Active("request_counter") THEN "add" ELSE "idle",
                    !.outcome = IF Active("request_counter") THEN "running"
                                ELSE "returned"]]
  /\ requested' = [requested EXCEPT ![<<endpoint, status_code>>] = @ + 1]
  /\ ncalls' = ncalls + 1
  /\ UNCHANGED <<config, fields, ctor, failures, stdout, counter, histogram,
                 spans, scope, current>>

\* count_request up to the guard: a no-op that returns when the counter is
\* not in use, else the call goes on to request_counter.add.
count_request(c, endpoint, status_code) ==
  /\ CanCall(c)
  /\ thread' = [thread EXCEPT ![c] =
       [Idle EXCEPT !.op = "count_request", !.endpoint = endpoint,
                    !.status = status_code,
                    !.pc = IF Active("request_counter") THEN "add" ELSE "idle",
                    !.outcome = IF AttrError("request_counter") THEN "raised"
                                ELSE IF Active("request_counter") THEN "running"
                                ELSE "returned"]]
  /\ requested' = [requested EXCEPT ![<<endpoint, status_code>>] = @ + 1]
  /\ ncalls' = ncalls + 1
  /\ UNCHANGED <<config, fields, logger, ctor, failures, stdout, counter, histogram,
                 spans, scope, current>>

\* CounterAdd as an unlocked read-modify-write: the increment is lost when
\* another caller is adding at the same time.
CounterAddLosesUpdate(c) ==
  /\ thread[c].pc = "add"
  /\ counter' =
       IF \E d \in Callers \ {c} : thread[d].pc = "add"
       THEN counter
       ELSE Add(counter, 1,
                RequestAttributes(thread[c].endpoint, thread[c].status))
  /\ thread' = [thread EXCEPT ![c].pc = "idle", ![c].outcome = "returned"]
  /\ UNCHANGED <<config, fields, logger, ctor, failures, stdout, histogram, spans,
                 scope, current, requested, ncalls>>

\* self.request_counter.add(1, {...}); count_request returns.
CounterAdd(c) ==
  /\ thread[c].pc = "add"
  /\ counter' = Add(counter, 1,
                    RequestAttributes(thread[c].endpoint, thread[c].status))
  /\ thread' = [thread EXCEPT ![c].pc = "idle", ![c].outcome = "returned"]
  /\ UNCHANGED <<config, fields, logger, ctor, failures, stdout, histogram, spans,
                 scope, current, requested, ncalls>>

record_duration(c, endpoint, duration_seconds) ==
  /\ CanCall(c)
  /\ histogram' =
       IF Active("request_duration")
       THEN Record(histogram, duration_seconds,
                   [endpoint |-> endpoint, service |-> logger.service_name])
       ELSE histogram
  /\ thread' = [thread EXCEPT ![c] =
       [Idle EXCEPT !.op = "record_duration", !.endpoint = endpoint,
                    !.outcome = IF AttrError("request_duration") THEN "raised"
                                ELSE "returned"]]
  /\ ncalls' = ncalls + 1
  /\ UNCHANGED <<config, fields, logger, ctor, failures, stdout, counter, spans, scope,
                 current, requested>>

\* ------------------------------------------------------------------ spans
Operations == {"work"}
EventNames == {"cache_miss"}

\* The attributes start_span sets on a real span.
SpanAttributes ==
  [k \in {"service", "version", "environment"} |->
     CASE k = "service" -> logger.service_name
       [] k = "version" -> logger.version
       [] k = "environment" -> logger.environment]

\* tracer.start_span(name): a new recording span with ids of its own.
NewSpan(id, name) ==
  [name |-> name, trace_id |-> 160 + id, span_id |-> id, attributes |-> NoRec,
   events |-> <<>>, ended |-> FALSE]

\* What start_span returns: a real span when the tracer is in use, else a
\* DummySpan.
start_span(c, operation) ==
  /\ CanCall(c)
  /\ scope[c].phase \in {"none", "exited"}
  /\ Active("tracer") => Len(spans) < MaxSpans
  /\ IF AttrError("tracer")
     THEN /\ thread' = [thread EXCEPT ![c] =
                 [Idle EXCEPT !.op = "start_span", !.outcome = "raised"]]
          /\ UNCHANGED <<spans, scope>>
     ELSE /\ thread' = [thread EXCEPT ![c] =
                 [Idle EXCEPT !.op = "start_span", !.outcome = "returned"]]
          /\ IF Active("tracer")
             THEN /\ spans' = Append(spans,
                       [NewSpan(Len(spans) + 1, operation) EXCEPT
                          !.attributes = DictMerge(@, SpanAttributes)])
                  /\ scope' = [scope EXCEPT ![c] =
                       [NoScope EXCEPT !.kind = "Span", !.span = Len(spans) + 1,
                                       !.phase = "returned"]]
             ELSE /\ spans' = spans
                  /\ scope' = [scope EXCEPT ![c] =
                       [NoScope EXCEPT !.kind = "DummySpan", !.phase = "returned"]]
  /\ ncalls' = ncalls + 1
  /\ UNCHANGED <<config, fields, logger, ctor, failures, stdout, counter, histogram,
                 current, requested>>

\* The classes whose instances a with statement accepts: those that define
\* __enter__ and __exit__.
ContextManagers == {"DummySpan", "Span"}

\* "with logger.start_span(...) as span:" enters the block.
EnterScope(c) ==
  /\ scope[c].phase = "returned"
  /\ thread[c].pc = "idle"
  /\ scope' = [scope EXCEPT ![c].phase =
       IF scope[c].kind \in ContextManagers THEN "entered" ELSE "unsupported"]
  /\ UNCHANGED <<config, fields, logger, ctor, failures, stdout, counter, histogram,
                 spans, thread, current, requested, ncalls>>

\* DummySpan.__exit__ returning a true value.
DummySpanExitSuppresses == [suppress |-> TRUE]

\* DummySpan.__exit__: does nothing and returns None, so the with statement
\* does not suppress the exception of its block.
DummySpan__exit__ == [suppress |-> FALSE]

\* Span.__exit__ of the SDK: ends the span and returns None.
Span__exit__ == [suppress |-> FALSE]

\* The block of the with statement completes or fails; the with statement
\* calls __exit__ once and re-raises a failure __exit__ did not suppress.
ExitScope(c) ==
  /\ scope[c].phase = "entered"
  /\ thread[c].pc = "idle"
  /\ \E failed \in BOOLEAN :
       LET exit == IF scope[c].kind = "Span" THEN Span__exit__
                   ELSE DummySpan__exit__
       IN scope' = [scope EXCEPT ![c].phase = "exited",
                                 ![c].exits = @ + 1,
                                 ![c].failed = failed,
                                 ![c].propagated = failed /\ ~exit.suppress]
  /\ spans' = IF scope[c].kind = "Span"
              THEN [spans EXCEPT ![scope[c].span].ended = TRUE]
              ELSE spans
  /\ UNCHANGED <<config, fields, logger, ctor, failures, stdout, counter, histogram,
                 thread, current, requested, ncalls>>

\* The caller's own code makes the span it holds the current span of its
\* context (trace.use_span), which start_span and the with statement do not.
AttachSpan(c) ==
  /\ scope[c].kind = "Span"
  /\ scope[c].phase = "entered"
  /\ thread[c].pc = "idle"
  /\ current[c] = NoSpan
  /\ current' = [current EXCEPT ![c] = scope[c].span]
  /\ UNCHANGED <<config, fields, logger, ctor, failures, stdout, counter, histogram,
                 spans, thread, scope, requested, ncalls>>

DetachSpan(c) ==
  /\ current[c] # NoSpan
  /\ thread[c].pc = "idle"
  /\ current' = [current EXCEPT ![c] = NoSpan]
  /\ UNCHANGED <<config, fields, logger, ctor, failures, stdout, counter, histogram,
                 spans, thread, scope, requested, ncalls>>

add_span_event(c, event) ==
  /\ CanCall(c)
  /\ spans' =
       IF logger.initialized /\ is_recording(get_current_span(c))
       THEN [spans EXCEPT ![get_current_span(c)].events =
               Append(@, [name |-> event, attributes |-> fields])]
       ELSE spans
  /\ thread' = [thread EXCEPT ![c] =
       [Idle EXCEPT !.op = "add_span_event", !.outcome = "returned"]]
  /\ ncalls' = ncalls + 1
  /\ UNCHANGED <<config, fields, logger, ctor, failures, stdout, counter, histogram,
                 scope, current, requested>>

add_span_attribute(c, key, value) ==
  /\ CanCall(c)
  /\ spans' =
       IF logger.initialized /\ is_recording(get_current_span(c))
       THEN [spans EXCEPT ![get_current_span(c)].attributes =
               SetItem(@, key, value)]
       ELSE spans
  /\ thread' = [thread EXCEPT ![c] =
       [Idle EXCEPT !.op = "add_span_attribute", !.outcome = "returned"]]
  /\ ncalls' = ncalls + 1
  /\ UNCHANGED <<config, fields, logger, ctor, failures, stdout, counter, histogram,
                 scope, current, requested>>

\* ---------------------------------------------------------------- handlers
\* The handlers of user-service/server.py.  A handler run is the facade calls
\* it makes inside its with-block, in order, and the status of its response.
Handlers ==
  {"healthz", "readyz", "work", "get_user", "create_user", "get_user_profile"}

\* What a request brings: whether READINESS_DELAY_SEC has elapsed, whether
\* random.random() < FAIL_RATE, whether the JSON body has name and email, the
\* user id of the path, and whether a statement of the try body raises: none
\* (0), or one before the first facade call of the path taken (1), such as
\* request.get_json() on a malformed body or data.get on a body that is a list.
RaisePoints == {0, 1}
HandlerInputs ==
  [ready : BOOLEAN, roll : BOOLEAN, valid : BOOLEAN, user_id : UserIds,
   raises : RaisePoints]

LogStep(op) == [op |-> op, endpoint |-> "", status |-> 0]
CountStep(endpoint, status_code) ==
  [op |-> "count_request", endpoint |-> endpoint, status |-> status_code]
Run(steps, status) == [steps |-> steps, status |-> status, unexpected |-> FALSE]

\* try: <body> except Exception as e: <handler>.  The body runs up to the
\* statement that raises, then the except clause runs.
TryExcept(body, raiseAt, handler) ==
  IF raiseAt = 0 THEN body
  ELSE [steps |-> SubSeq(body.steps, 1, raiseAt - 1) \o handler.steps,
        status |-> handler.status, unexpected |-> TRUE]

healthz(in) ==
  Run(<<LogStep("info"), CountStep("/healthz", 200)>>, 200)

readyz(in) ==
  IF ~in.ready
  THEN Run(<<LogStep("warn"), CountStep("/readyz", 503)>>, 503)
  ELSE Run(<<LogStep("info"), CountStep("/readyz", 200)>>, 200)

\* The shape work, get_user and get_user_profile share: a simulated failure
\* answers 500, success answers 200, and the except clause answers 500.
LookupHandler(endpoint, in) ==
  TryExcept(
    IF in.roll
    THEN Run(<<LogStep("error"), CountStep(endpoint, 500)>>, 500)
    ELSE Run(<<LogStep("info"), CountStep(endpoint, 200)>>, 200),
    in.raises,
    Run(<<LogStep("error"), CountStep(endpoint, 500)>>, 500))

\* work whose except clause logs the error and answers without counting.
workExceptUncounted(in) ==
  TryExcept(
    IF in.roll
    THEN Run(<<LogStep("error"), CountStep("/work", 500)>>, 500)
    ELSE Run(<<LogStep("info"), CountStep("/work", 200)>>, 200),
    in.raises,
    Run(<<LogStep("error")>>, 500))

work(in) == LookupHandler("/work", in)

get_user(in) == LookupHandler("/users/" \o in.user_id, in)

create_user(in) ==
  TryExcept(
    IF ~in.valid
    THEN Run(<<LogStep("warn"), CountStep("/users", 400)>>, 400)
    ELSE IF in.roll
    THEN Run(<<LogStep("error"), CountStep("/users", 500)>>, 500)
    ELSE Run(<<LogStep("info"), CountStep("/users", 201)>>, 201),
    in.raises,
    Run(<<LogStep("error"), CountStep("/users", 500)>>, 500))

get_user_profile(in) ==
  LookupHandler("/users/" \o in.user_id \o "/profile", in)

Handle(h, in) ==
  CASE h = "healthz" -> healthz(in)
    [] h = "readyz" -> readyz(in)
    [] h = "work" -> work(in)
    [] h = "get_user" -> get_user(in)
    [] h = "create_user" -> create_user(in)
    [] h = "get_user_profile" -> get_user_profile(in)

CountSteps(steps) == SelectSeq(steps, LAMBDA st : st.op = "count_request")
LogSteps(steps) == SelectSeq(steps, LAMBDA st : st.op \in LogOps)

\* The count_request calls of a run applied to the counter, in order.
RECURSIVE AddAll(_, _)
AddAll(agg, counts) ==
  IF counts = <<>> THEN agg
  ELSE AddAll(Add(agg, 1, RequestAttributes(Head(counts).endpoint,
                                             Head(counts).status)),
              Tail(counts))

RECURSIVE RequestAll(_, _)
RequestAll(req, counts) ==
  IF counts = <<>> THEN req
  ELSE RequestAll(
         [req EXCEPT ![<<Head(counts).endpoint, Head(counts).status>>] = @ + 1],
         Tail(counts))

\* The lines the logging calls of a run write.
RECURSIVE WriteAll(_, _, _)
WriteAll(out, by, logs) ==
  IF logs = <<>> THEN out
  ELSE WriteAll(out \o PrintChunks(by, "record"), by, Tail(logs))

\* One request served by handler h on thread c: the span of its with-block is
\* started and ended, its records are written, its count_request calls reach
\* the counter when that is in use, and the response is returned.
HandleRequest(c) ==
  /\ ctor = "returned" /\ thread[c].pc = "idle" /\ ncalls < MaxRequests
  /\ scope[c].phase \in {"none", "exited"}
  /\ Active("tracer") => Len(spans) < MaxSpans
  /\ \E h \in Handlers, in \in HandlerInputs :
       LET run == Handle(h, in)
           counts == CountSteps(run.steps)
       IN /\ thread' = [thread EXCEPT ![c] =
                 [Idle EXCEPT !.op = h, !.user_id = in.user_id,
                              !.unexpected = run.unexpected,
                              !.calls = [i \in 1 .. Len(counts) |->
                                           <<counts[i].endpoint, counts[i].status>>],
                              !.response = run.status,
                              !.outcome = "returned"]]
          /\ counter' = IF Active("request_counter") THEN AddAll(counter, counts)
                        ELSE counter
          /\ requested' = RequestAll(requested, counts)
          /\ stdout' = WriteAll(stdout, c, LogSteps(run.steps))
          /\ spans' = IF Active("tracer")
                      THEN Append(spans,
                             [NewSpan(Len(spans) + 1, h) EXCEPT
                                !.attributes = DictMerge(@, SpanAttributes),
                                !.ended = TRUE])
                      ELSE spans
  /\ ncalls' = ncalls + 1
  /\ UNCHANGED <<config, fields, logger, ctor, failures, histogram, scope, current>>

\* --------------------------------------------------------- specifications
\* One request-handling thread using every operation of the facade.
MainThread == {1}

Next ==
  \/ Construct
  \/ \E c \in MainThread :
       \/ info(c) \/ warn(c) \/ debug(c) \/ error(c)
       \/ WriteText(c) \/ WriteEnd(c)
       \/ \E e \in Endpoints, sc \in StatusCodes : count_request(c, e, sc)
       \/ CounterAdd(c)
       \/ \E e \in Endpoints, d \in Durations : record_duration(c, e, d)
       \/ \E o \in Operations : start_span(c, o)
       \/ EnterScope(c) \/ ExitScope(c)
       \/ AttachSpan(c) \/ DetachSpan(c)
       \/ \E ev \in EventNames : add_span_event(c, ev)
       \/ add_span_attribute(c, "user_id", "u1")

Spec == Init /\ [][Next]_vars

\* NCallers request-handling threads logging and counting concurrently, as
\* under the threaded HTTP server; they pass no fields.
InitConc == Init /\ fields = NoRec

NextConc ==
  \/ Construct
  \/ \E c \in Callers :
       \/ info(c)
       \/ WriteText(c) \/ WriteEnd(c)
       \/ \E e \in Endpoints, sc \in StatusCodes : count_request(c, e, sc)
       \/ CounterAdd(c)

SpecConc == InitConc /\ [][NextConc]_vars

\* The user service: a thread serves requests through the handlers.
InitHandlers == Init /\ fields = NoRec

NextHandlers ==
  \/ Construct
  \/ \E c \in MainThread : HandleRequest(c)

SpecHandlers == InitHandlers /\ [][NextHandlers]_vars

\* ------------------------------------------------------------------ claims
StandardKeys ==
  {"timestamp", "level", "message", "service", "version", "environment"}
TraceKeys == {"trace_id", "span_id"}

\* Record d has value under key.
HasItem(d, key, value) == key \in DOMAIN d /\ d[key] = value

\* Caller c's last call was a logging call that wrote its record.
Emitted(c) == thread[c].op \in LogOps /\ thread[c].outcome = "returned"

NoEmitterTouched ==
  DOMAIN counter = {} /\ DOMAIN histogram = {} /\ Len(spans) = 0

EmitterOps ==
  {"count_request", "record_duration", "start_span", "add_span_event",
   "add_span_attribute"}

\* C1: a Logger built from a Config with no collector endpoint never touches
\* a trace or metric emitter: the counter and the histogram stay empty, no real
\* span is created (so no event or attribute is attached), none of
\* count_request, record_duration, start_span, add_span_event and
\* add_span_attribute raises, and start_span returns a no-op span.
C1_InactiveIsNoOp ==
  (ctor = "returned" /\ config.alloy_url = None) =>
    /\ NoEmitterTouched
    /\ \A c \in Callers :
         /\ thread[c].op \in EmitterOps => thread[c].outcome = "returned"
         /\ scope[c].kind \in {"none", "DummySpan"}

C1_Witness ==
  /\ config.alloy_url = None
  /\ ncalls = MaxCalls
  /\ scope[1].kind = "DummySpan"
  /\ thread[1].op = "count_request" /\ thread[1].outcome = "returned"

\* C2 as stated: the key set of every emitted record is the six standard
\* keys united with the caller-supplied field names, plus trace_id and span_id
\* exactly when a recording span was current at the call.
C2_KeysAsStated ==
  \A c \in Callers :
    Emitted(c) =>
      DOMAIN thread[c].rec =
        StandardKeys \cup DOMAIN fields
          \cup (IF thread[c].recording THEN TraceKeys ELSE {})

\* C2 (amended): the key set of every emitted record is the six standard keys
\* united with the caller-supplied field names, with "error" for a call to
\* error, and with trace_id and span_id when the instance is initialized and a
\* recording span was current at the call.
C2_KeysAmended ==
  \A c \in Callers :
    Emitted(c) =>
      DOMAIN thread[c].rec =
        StandardKeys \cup DOMAIN fields
          \cup (IF thread[c].op = "error" THEN {"error"} ELSE {})
          \cup (IF logger.initialized /\ thread[c].recording THEN TraceKeys ELSE {})

C2_Witness ==
  /\ Emitted(1) /\ thread[1].op = "error" /\ thread[1].recording
  /\ "user_id" \in DOMAIN fields

LevelOf(op) ==
  CASE op = "info" -> "INFO" [] op = "warn" -> "WARN"
    [] op = "debug" -> "DEBUG" [] op = "error" -> "ERROR"

\* C3: every emitted record has the level of the operation called, the
\* message passed, and the service, version and environment of the Config.
C3_StandardValues ==
  \A c \in Callers :
    Emitted(c) =>
      /\ HasItem(thread[c].rec, "level", LevelOf(thread[c].op))
      /\ HasItem(thread[c].rec, "message", Message)
      /\ HasItem(thread[c].rec, "service", config.service_name)
      /\ HasItem(thread[c].rec, "version", config.version)
      /\ HasItem(thread[c].rec, "environment", config.environment)

\* C4 as stated: the record of error(message, err, fields) has str(err) under
\* "error", and every caller-supplied field of another name has the caller's
\* value.
C4_ErrorMergeAsStated ==
  \A c \in Callers :
    (Emitted(c) /\ thread[c].op = "error") =>
      /\ HasItem(thread[c].rec, "error", thread[c].err)
      /\ \A k \in DOMAIN fields \ {"error"} : HasItem(thread[c].rec, k, fields[k])

\* C4 (amended): the record of error(message, err, fields) has str(err) under
\* "error", and every caller-supplied field of another name has the caller's
\* value, other than trace_id and span_id when the instance is initialized and
\* a recording span was current at the call.
C4_ErrorMergeAmended ==
  \A c \in Callers :
    (Emitted(c) /\ thread[c].op = "error") =>
      /\ HasItem(thread[c].rec, "error", thread[c].err)
      /\ \A k \in DOMAIN fields \ {"error"} :
           (k \in TraceKeys /\ logger.initialized /\ thread[c].recording)
             \/ HasItem(thread[c].rec, k, fields[k])

C4_Witness ==
  /\ Emitted(1) /\ thread[1].op = "error" /\ thread[1].recording
  /\ "trace_id" \in DOMAIN fields /\ "user_id" \in DOMAIN fields

\* C5: when an endpoint is configured and a step of the construction fails
\* (the resource, the trace emitter or the metric emitter), the instance ends
\* local-only: the flag is false, no trace or metric emitter is in use, and
\* later count_request, record_duration and start_span act as when inactive.
C5_FailureFallsBackToLocalOnly ==
  (ctor = "returned" /\ Truthy(config.alloy_url) /\ failures # {}) =>
    /\ ~logger.initialized
    /\ ~Active("tracer") /\ ~Active("request_counter") /\ ~Active("request_duration")
    /\ NoEmitterTouched
    /\ \A c \in Callers : scope[c].kind \in {"none", "DummySpan"}

\* C6: the constructor never raises, whatever the Config and whichever steps
\* fail, and the instance it returns is usable: no emitter operation fails on
\* an attribute the constructor left unassigned.
C6_ConstructorNeverRaises ==
  /\ ctor # "raised"
  /\ ctor = "returned" =>
       /\ \A attr \in {"tracer", "request_counter", "request_duration"} :
            ~AttrError(attr)
       /\ \A c \in Callers :
            thread[c].op \in EmitterOps => thread[c].outcome # "raised"

C6_Witness ==
  /\ ctor = "returned" /\ failures = {"resource"}
  /\ thread[1].op = "start_span" /\ thread[1].outcome = "returned"

\* C7: no facade operation called after construction propagates an error to
\* its caller.
C7_NoOperationRaises ==
  \A c \in Callers : thread[c].outcome # "raised"

\* C8: in both modes start_span returns an object a with statement accepts;
\* the exit step of the scope is reached once, whether the wrapped operation
\* completes or fails, and the exit of the no-op span does not suppress the
\* failure of the wrapped operation.
C8_ScopedSpan ==
  \A c \in Callers :
    /\ thread[c].op = "start_span" => thread[c].outcome = "returned"
    /\ scope[c].phase # "none" => scope[c].kind \in ContextManagers
    /\ scope[c].phase # "unsupported"
    /\ scope[c].phase \in {"returned", "entered"} => scope[c].exits = 0
    /\ scope[c].phase = "exited" =>
         /\ scope[c].exits = 1
         /\ (scope[c].kind = "DummySpan" /\ scope[c].failed) => scope[c].propagated

C8_Witness ==
  /\ scope[1].kind = "DummySpan" /\ scope[1].phase = "exited"
  /\ scope[1].failed /\ scope[1].propagated

\* The counter dimension the claim names for (endpoint, status code).
ExpectedAttributes(e, sc) ==
  [endpoint |-> e, status_code |-> IF sc = 200 THEN "200" ELSE "500",
   service |-> config.service_name]

Quiescent == \A c \in Callers : thread[c].pc = "idle"

\* C9: in active mode, once all concurrent calls have returned, the counter of
\* each dimension (endpoint, status code as a string, service name) has grown
\* by the number of count_request calls made with that endpoint and status
\* code, and no other dimension has changed.
C9_NoLostUpdates ==
  (Active("request_counter") /\ Quiescent) =>
    /\ \A e \in Endpoints, sc \in StatusCodes :
         Value(counter, ExpectedAttributes(e, sc)) = requested[<<e, sc>>]
    /\ DOMAIN counter \subseteq
         {ExpectedAttributes(k[1], k[2]) : k \in {q \in DOMAIN requested : requested[q] > 0}}

C9_Witness ==
  /\ Active("request_counter")
  /\ \A c \in Callers :
       /\ thread[c].op = "count_request" /\ thread[c].outcome = "returned"
       /\ thread[c].endpoint = "/work" /\ thread[c].status = 200
  /\ requested[<<"/work", 200>>] = NCallers
  /\ Value(counter, ExpectedAttributes("/work", 200)) = NCallers

\* C10: the shared output consists of whole lines: each record written is
\* followed at once by the line terminator of the same call, with nothing of
\* another call in between.
C10_WholeLines ==
  \A i \in 1 .. Len(stdout) :
    stdout[i].kind = "text" =>
      \/ i = Len(stdout)
      \/ stdout[i + 1].kind = "end" /\ stdout[i + 1].by = stdout[i].by

\* C11: the mode is fixed when the constructor returns: no operation after it
\* changes the initialization flag, the tracer, the request counter or the
\* duration histogram of the instance, so an instance that fell back to
\* local-only stays local-only.
C11_ModeFixed == [][ctor = "returned" => logger' = logger]_vars

C11_Witness ==
  /\ ctor = "returned" /\ failures = {"resource"} /\ ~logger.initialized
  /\ ncalls = MaxCalls
  /\ thread[1].op = "count_request" /\ thread[1].outcome = "returned"

\* The lines the constructor printed.
DiagnosticLines ==
  Cardinality({i \in 1 .. Len(stdout) :
                 stdout[i].by = 0 /\ stdout[i].kind = "text"})

\* C12: a construction with a configured endpoint that meets an
\* initialization error writes exactly one diagnostic line, whichever and
\* however many of the resource, trace-emitter and metric-emitter steps fail;
\* a construction with no failing step, or with no endpoint, writes none.
C12_OneDiagnosticLine ==
  ctor = "returned" =>
    DiagnosticLines =
      (IF Truthy(config.alloy_url) /\ failures # {} THEN 1 ELSE 0)

\* C13: in active mode, while a caller is inside the scope of the real span
\* start_span returned, that span is the current span of the caller, so a
\* record logged in the scope carries its trace_id and span_id; once the scope
\* has exited the span is no longer current.
C13_SpanInScopeIsCurrent ==
  \A c \in Callers :
    /\ (scope[c].kind = "Span" /\ scope[c].phase = "entered") =>
         /\ current[c] = scope[c].span
         /\ (thread[c].op \in LogOps /\ thread[c].pc \in {"write_text", "write_end"}) =>
              /\ HasItem(thread[c].rec, "trace_id",
                         FormatHex(spans[scope[c].span].trace_id, 32))
              /\ HasItem(thread[c].rec, "span_id",
                         FormatHex(spans[scope[c].span].span_id, 16))
    /\ (scope[c].kind = "Span" /\ scope[c].phase = "exited") =>
         current[c] # scope[c].span

\* The endpoint each handler serves.
ExpectedEndpoint(h, user_id) ==
  CASE h = "healthz" -> "/healthz"
    [] h = "readyz" -> "/readyz"
    [] h = "work" -> "/work"
    [] h = "get_user" -> "/users/" \o user_id
    [] h = "create_user" -> "/users"
    [] h = "get_user_profile" -> "/users/" \o user_id \o "/profile"

\* C14: every request a handler of the user service has served, on every
\* path through the handler (validation failure, simulated failure and
\* unexpected exception included), made exactly one count_request call before
\* its response, with the endpoint of the handler and the status code of the
\* response.
C14_CountedOncePerRequest ==
  \A c \in Callers :
    thread[c].op \in Handlers =>
      thread[c].calls =
        << <<ExpectedEndpoint(thread[c].op, thread[c].user_id), thread[c].response>> >>

C14_Witness ==
  /\ thread[1].op = "work" /\ thread[1].unexpected /\ thread[1].response = 500
  /\ requested[<<"/users", 400>>] = 1

====
